---- MODULE Spec2Model ----
(***************************************************************************)
(* Model of the Reddit ingestion path of Backend/fastAPI.py:               *)
(*   transform_reddit_comment  (the post normalizer, a pure function of    *)
(*                              the raw comment and the captured instant)  *)
(*   get_reddit_data           (GET /stocks/{symbol}/reddit)               *)
(*                                                                         *)
(* Python strings that the code inspects (time, content) are sequences of  *)
(* one-character strings; strings that are only copied (id, author,        *)
(* source, sentiment labels) are atomic.  A raw comment is a Python dict:  *)
(* a function whose DOMAIN is the set of keys that are present.            *)
(* Instants are integers counting ticks, TicksPerHour ticks to the hour.   *)
(***************************************************************************)
EXTENDS Integers, Sequences, FiniteSets, TLC

VARIABLES
    fetcher,            \* what the Fetcher will do for this request
    pc,                 \* position inside get_reddit_data
    comments,           \* local: the list returned by the Fetcher
    transformed_posts,  \* the list the comprehension has built so far
    clock,              \* the current UTC instant (datetime.now)
    calls,              \* history: one entry per transform_reddit_comment call
    response            \* the HTTP response of the request

vars == <<fetcher, pc, comments, transformed_posts, clock, calls, response>>

-----------------------------------------------------------------------------
(* Bounds of the model *)

MaxTimeLen == 3       \* longest enumerated time string
MaxContentLen == 4    \* longest enumerated content string
MaxBatch == 4         \* longest enumerated batch of curated comments
MaxSkew == 2          \* clock ticks that may elapse during one request
TicksPerHour == 2     \* resolution of the clock
StartInstant == 10000 \* the clock when the request arrives

-----------------------------------------------------------------------------
(* Python values *)

None == [isNone |-> TRUE]
Some(v) == [isNone |-> FALSE, value |-> v]

Digits == <<"0", "1", "2", "3", "4", "5", "6", "7", "8", "9">>

LowerLetters == <<"a", "b", "c", "d", "e", "f", "g", "h", "i", "j", "k", "l", "m",
                  "n", "o", "p", "q", "r", "s", "t", "u", "v", "w", "x", "y", "z">>

UpperLetters == <<"A", "B", "C", "D", "E", "F", "G", "H", "I", "J", "K", "L", "M",
                  "N", "O", "P", "Q", "R", "S", "T", "U", "V", "W", "X", "Y", "Z">>

Range(f) == {f[x] : x \in DOMAIN f}

Whitespace == {" ", "\t", "\n"}

IsDigit(c) == c \in Range(Digits)

DigitValue(c) == (CHOOSE i \in DOMAIN Digits : Digits[i] = c) - 1

\* the character class [A-Za-z] of the regular expression
IsLetter(c) == c \in Range(LowerLetters) \cup Range(UpperLetters)

\* str.upper() on one character
UpperChar(c) ==
    IF c \in Range(LowerLetters)
    THEN UpperLetters[CHOOSE i \in DOMAIN LowerLetters : LowerLetters[i] = c]
    ELSE c

upper_identity(s) == s

\* ticker.upper()
upper(s) == [i \in DOMAIN s |-> UpperChar(s[i])]

-----------------------------------------------------------------------------
(* comment["time"].split("h") *)

RECURSIVE split(_, _)
split(s, sep) ==
    IF \A i \in DOMAIN s : s[i] # sep
    THEN <<s>>
    ELSE LET i == CHOOSE j \in DOMAIN s :
                      s[j] = sep /\ \A k \in 1..(j - 1) : s[k] # sep
         IN  <<SubSeq(s, 1, i - 1)>> \o split(SubSeq(s, i + 1, Len(s)), sep)

-----------------------------------------------------------------------------
(* int(str): surrounding whitespace is stripped, one optional sign, then   *)
(* decimal digits, single underscores allowed between digits.              *)

RECURSIVE lstrip(_)
lstrip(s) ==
    IF s # <<>> /\ Head(s) \in Whitespace THEN lstrip(Tail(s)) ELSE s

RECURSIVE rstrip(_)
rstrip(s) ==
    IF s # <<>> /\ s[Len(s)] \in Whitespace
    THEN rstrip(SubSeq(s, 1, Len(s) - 1))
    ELSE s

strip(s) == rstrip(lstrip(s))

IsDecimalLiteral(d) ==
    /\ d # <<>>
    /\ \A i \in DOMAIN d : IsDigit(d[i]) \/ d[i] = "_"
    /\ IsDigit(d[1])
    /\ IsDigit(d[Len(d)])
    /\ \A i \in 1..(Len(d) - 1) : ~(d[i] = "_" /\ d[i + 1] = "_")

RECURSIVE DecimalValue(_)
DecimalValue(d) ==
    IF d = <<>> THEN 0
    ELSE LET c == d[Len(d)]
             rest == SubSeq(d, 1, Len(d) - 1)
         IN  IF c = "_" THEN DecimalValue(rest)
             ELSE 10 * DecimalValue(rest) + DigitValue(c)

ValueError(literal) ==
    [type |-> "ValueError",
     message |-> "invalid literal for int() with base 10: ",
     literal |-> literal]

int(s) ==
    LET t == strip(s)
        signed == t # <<>> /\ t[1] \in {"+", "-"}
        d == IF signed THEN Tail(t) ELSE t
    IN  IF IsDecimalLiteral(d)
        THEN [ok |-> TRUE,
              value |-> IF signed /\ t[1] = "-"
                        THEN 0 - DecimalValue(d) ELSE DecimalValue(d)]
        ELSE [ok |-> FALSE, error |-> ValueError(s)]

-----------------------------------------------------------------------------
(* datetime arithmetic *)

timedelta_ticks(time_value) == time_value

\* timedelta(hours=time_value).  The enumerated counts stay far inside the
\* range of timedelta and datetime, so the subtraction cannot overflow here.
timedelta(time_value) == time_value * TicksPerHour

\* past_time.isoformat(): calendar day, time of day, UTC offset
isoformat(instant) ==
    [date |-> instant \div (24 * TicksPerHour),
     time |-> instant % (24 * TicksPerHour),
     offset |-> "+00:00"]

-----------------------------------------------------------------------------
(* re.findall(r"\$([A-Za-z]+)", content): leftmost, non-overlapping,       *)
(* greedy matches; the captured group is the run of letters.               *)

RECURSIVE RunEnd(_, _)
RunEnd(s, p) ==
    IF p < Len(s) /\ IsLetter(s[p + 1]) THEN RunEnd(s, p + 1) ELSE p

RECURSIVE FindAllFrom(_, _)
FindAllFrom(s, p) ==
    IF p > Len(s) THEN <<>>
    ELSE IF s[p] = "$" /\ p < Len(s) /\ IsLetter(s[p + 1])
         THEN LET e == RunEnd(s, p + 1)
              IN  <<SubSeq(s, p + 1, e)>> \o FindAllFrom(s, e + 1)
         ELSE FindAllFrom(s, p + 1)

findall(content) == FindAllFrom(content, 1)

stock_mentions_keep_empty(found) ==
    Some([i \in DOMAIN found |-> upper(found[i])])

\* if stock_mentions: [ticker.upper() ...] else: None
stock_mentions(found) ==
    IF found # <<>>
    THEN Some([i \in DOMAIN found |-> upper(found[i])])
    ELSE None

-----------------------------------------------------------------------------
(* class RedditPost(BaseModel) and transform_reddit_comment *)

KeyError(key) == [type |-> "KeyError", key |-> key]

RedditPostSwapped(id, author, content, likes, replies, timestamp, source, stockMentions, sentiment) ==
    [id |-> id, author |-> author, content |-> content, likes |-> replies,
     replies |-> likes, timestamp |-> timestamp, source |-> source,
     stockMentions |-> stockMentions, sentiment |-> sentiment]

RedditPostAbs(id, author, content, likes, replies, timestamp, source, stockMentions, sentiment) ==
    [id |-> id, author |-> author, content |-> content,
     likes |-> IF likes < 0 THEN 0 - likes ELSE likes,
     replies |-> IF replies < 0 THEN 0 - replies ELSE replies,
     timestamp |-> timestamp, source |-> source,
     stockMentions |-> stockMentions, sentiment |-> sentiment]

\* The values the model feeds in have the declared types, so validation
\* passes and the fields are stored as given; the declared ints carry no
\* range constraint.
RedditPost(id, author, content, likes, replies, timestamp, source, stockMentions, sentiment) ==
    [id |-> id, author |-> author, content |-> content, likes |-> likes,
     replies |-> replies, timestamp |-> timestamp, source |-> source,
     stockMentions |-> stockMentions, sentiment |-> sentiment]

ArgumentKeysSentimentFirst ==
    <<"sentiment", "id", "author", "content", "upvotes", "replies", "source">>

\* the keys subscripted while the arguments of RedditPost(...) are
\* evaluated, in evaluation order
ArgumentKeys ==
    <<"id", "author", "content", "upvotes", "replies", "source", "sentiment">>

Raise(e) == [ok |-> FALSE, error |-> e]

Return(v) == [ok |-> TRUE, post |-> v]

transform_reddit_comment(comment, now) ==
    IF "time" \notin DOMAIN comment THEN Raise(KeyError("time"))
    ELSE
    LET time_value == int(split(comment["time"], "h")[1]) IN
    IF ~time_value.ok THEN Raise(time_value.error)
    ELSE
    LET past_time == now - timedelta(time_value.value)
        iso_timestamp == isoformat(past_time)
    IN
    IF "content" \notin DOMAIN comment THEN Raise(KeyError("content"))
    ELSE
    LET mentions == stock_mentions(findall(comment["content"]))
        missing == {i \in DOMAIN ArgumentKeys :
                        ArgumentKeys[i] \notin DOMAIN comment}
    IN
    IF missing # {}
    THEN Raise(KeyError(ArgumentKeys[
             CHOOSE i \in missing : \A j \in missing : i <= j]))
    ELSE Return(RedditPost(comment["id"], comment["author"],
                           comment["content"], comment["upvotes"],
                           comment["replies"], iso_timestamp,
                           comment["source"], mentions,
                           comment["sentiment"]))

-----------------------------------------------------------------------------
(* The raw comments the Fetcher may return *)

Fields ==
    {"id", "author", "content", "upvotes", "replies", "time", "source",
     "sentiment"}

Restrict(c, S) == [k \in S |-> c[k]]

Strings(alphabet, n) == UNION {[1..k -> alphabet] : k \in 0..n}

TimeAlphabet == {"1", "2", "h", "d", "-", " "}

ContentAlphabet == {"$", "a", "A", "b", " "}

\* "Bullish on $NVDA today", 3 hours old
ExampleComment ==
    [id |-> "p1", author |-> "u1",
     content |-> <<"B", "u", "l", "l", "i", "s", "h", " ", "o", "n", " ",
                   "$", "N", "V", "D", "A", " ", "t", "o", "d", "a", "y">>,
     upvotes |-> 10, replies |-> 2, time |-> <<"3", "h">>,
     source |-> "reddit", sentiment |-> Some("positive")]

\* "$aa $AA $t", 2 hours old, never voted on
RepeatedMentions ==
    [id |-> "p2", author |-> "u2",
     content |-> <<"$", "a", "a", " ", "$", "A", "A", " ", "$", "t">>,
     upvotes |-> 0, replies |-> 0,
     time |-> <<"2", "h", " ", "a", "g", "o">>,
     source |-> "reddit", sentiment |-> None]

\* every combination of present keys, over a few values of each field
PresenceComments ==
    {Restrict([ExampleComment EXCEPT !.time = t, !.upvotes = u,
                                     !.replies = r, !.sentiment = s], S) :
        t \in {<<"3", "h">>, <<"a", "b", "c">>, <<"5">>},
        u \in {10, 0, -1},
        r \in {2, -3},
        s \in {Some("positive"), None},
        S \in SUBSET Fields}

TimeComments ==
    {[ExampleComment EXCEPT !.time = t] :
        t \in Strings(TimeAlphabet, MaxTimeLen)}

ContentComments ==
    {[ExampleComment EXCEPT !.content = c] :
        c \in Strings(ContentAlphabet, MaxContentLen)}

RawComments == PresenceComments \cup TimeComments \cup ContentComments

\* the comments batches are built from
BatchComments ==
    {ExampleComment,
     RepeatedMentions,
     [RepeatedMentions EXCEPT !.time = <<"3", "0", "m">>],
     Restrict(ExampleComment, Fields \ {"upvotes"})}

Batches == UNION {[1..n -> BatchComments] : n \in 0..MaxBatch}

FetchError == [type |-> "FetchError"]

\* fetchComments(ticker): a sequence of raw comments, or a failure
FetchOutcomes ==
    {Raise(FetchError)}
        \cup {[ok |-> TRUE, comments |-> b] : b \in Batches}
        \cup {[ok |-> TRUE, comments |-> <<c>>] : c \in RawComments}

-----------------------------------------------------------------------------
(* get_reddit_data *)

NoResponse == [status |-> 0]

\* str(e)
str(e) ==
    IF e.type = "KeyError" THEN [quoted |-> e.key]
    ELSE IF e.type = "ValueError"
         THEN [message |-> e.message, quoted |-> e.literal]
         ELSE [message |-> e.type]

PartialResponse(e, partial) == [status |-> 200, body |-> partial]

\* except Exception as e: raise HTTPException(status_code=500, ...)
ErrorResponse(e, partial) ==
    [status |-> 500, detail |-> [prefix |-> "Reddit API error: ", e |-> str(e)]]

prepend(list, x) == <<x>> \o list

\* the list comprehension adds each result at the end
append(list, x) == Append(list, x)

Init ==
    /\ fetcher \in FetchOutcomes
    /\ pc = "request"
    /\ comments = <<>>
    /\ transformed_posts = <<>>
    /\ clock = StartInstant
    /\ calls = <<>>
    /\ response = NoResponse

\* time passes while the request is being served
Tick ==
    /\ pc # "responded"
    /\ clock < StartInstant + MaxSkew
    /\ clock' = clock + 1
    /\ UNCHANGED <<fetcher, pc, comments, transformed_posts, calls, response>>

\* praw.Reddit(...) and fetch_reddit_comments_for_ticker(reddit_instance, symbol)
Fetch ==
    /\ pc = "request"
    /\ IF fetcher.ok
       THEN /\ comments' = fetcher.comments
            /\ pc' = "comprehension"
            /\ UNCHANGED response
       ELSE /\ response' = ErrorResponse(fetcher.error, transformed_posts)
            /\ pc' = "responded"
            /\ UNCHANGED comments
    /\ UNCHANGED <<fetcher, transformed_posts, clock, calls>>

\* one iteration of [transform_reddit_comment(comment) for comment in comments]
Transform ==
    /\ pc = "comprehension"
    /\ Len(transformed_posts) < Len(comments)
    /\ LET comment == comments[Len(transformed_posts) + 1]
           result == transform_reddit_comment(comment, clock)
       IN  /\ calls' = Append(calls, [raw |-> comment, now |-> clock,
                                      result |-> result])
           /\ IF result.ok
              THEN /\ transformed_posts' = append(transformed_posts, result.post)
                   /\ UNCHANGED <<pc, response>>
              ELSE /\ response' = ErrorResponse(result.error, transformed_posts)
                   /\ pc' = "responded"
                   /\ UNCHANGED transformed_posts
    /\ UNCHANGED <<fetcher, comments, clock>>

\* return transformed_posts
ReturnPosts ==
    /\ pc = "comprehension"
    /\ Len(transformed_posts) = Len(comments)
    /\ response' = [status |-> 200, body |-> transformed_posts]
    /\ pc' = "responded"
    /\ UNCHANGED <<fetcher, comments, transformed_posts, clock, calls>>

Next == Tick \/ Fetch \/ Transform \/ ReturnPosts

Spec == Init /\ [][Next]_vars

TypeOK ==
    /\ pc \in {"request", "comprehension", "responded"}
    /\ clock \in StartInstant..(StartInstant + MaxSkew)
    /\ Len(calls) <= Len(comments)
    /\ Len(transformed_posts) <= Len(calls)

-----------------------------------------------------------------------------
(* Vocabulary of the properties *)

Required == Fields \ {"sentiment"}

\* the request has been answered
Responded == pc = "responded"

\* some comment of the fetched batch cannot be normalized
SomeRecordFails ==
    /\ fetcher.ok
    /\ \E i \in DOMAIN fetcher.comments :
           ~transform_reddit_comment(fetcher.comments[i], clock).ok

\* s is <integer> "h" <anything>, the integer being what int() accepts
HourShape(s) ==
    \E p \in DOMAIN s : s[p] = "h" /\ int(SubSeq(s, 1, p - 1)).ok

\* s is <k> "h" <anything>, k written in decimal digits
CountShape(s) ==
    \E p \in DOMAIN s :
        /\ p > 1
        /\ s[p] = "h"
        /\ \A q \in 1..(p - 1) : IsDigit(s[q])

RECURSIVE CountFrom(_, _)
CountFrom(s, acc) ==
    IF s = <<>> \/ ~IsDigit(Head(s)) THEN acc
    ELSE CountFrom(Tail(s), 10 * acc + DigitValue(Head(s)))

\* the k of a string of CountShape
LeadingCount(s) == CountFrom(s, 0)

\* the instant an ISO 8601 timestamp denotes
InstantOf(ts) == ts.date * 24 * TicksPerHour + ts.time

\* positions of the '$' characters that are followed by a letter
CashtagStarts(s) ==
    {p \in 1..(Len(s) - 1) : s[p] = "$" /\ IsLetter(s[p + 1])}

\* the last position of the maximal run of letters that begins after p
RunLast(s, p) ==
    CHOOSE e \in (p + 1)..Len(s) :
        /\ \A q \in (p + 1)..e : IsLetter(s[q])
        /\ e = Len(s) \/ ~IsLetter(s[e + 1])

\* the j-th cashtag position from the left
NthStart(s, j) ==
    CHOOSE p \in CashtagStarts(s) :
        Cardinality({q \in CashtagStarts(s) : q <= p}) = j

\* m is the run r in upper case
IsUpperOf(m, r) ==
    /\ Len(m) = Len(r)
    /\ \A q \in DOMAIN r :
           /\ m[q] \in Range(UpperLetters)
           /\ \/ m[q] = r[q]
              \/ \E x \in DOMAIN LowerLetters :
                     r[q] = LowerLetters[x] /\ m[q] = UpperLetters[x]

\* m lists the cashtags of content, one per occurrence, left to right
ListsCashtags(m, content) ==
    /\ Len(m) = Cardinality(CashtagStarts(content))
    /\ \A j \in DOMAIN m :
           LET p == NthStart(content, j)
           IN  IsUpperOf(m[j], SubSeq(content, p + 1, RunLast(content, p)))

-----------------------------------------------------------------------------
(* C1: when the Fetcher fails, or any record of the batch fails to         *)
(* normalize, the answer is one HTTP 500 error that carries no posts.      *)
C1_FailFast ==
    (Responded /\ (~fetcher.ok \/ SomeRecordFails))
        => /\ response.status = 500
           /\ "body" \notin DOMAIN response

\* three records were normalized and the fourth failed
C1_Witness ==
    /\ Responded
    /\ response.status = 500
    /\ fetcher.ok
    /\ Len(fetcher.comments) = 4
    /\ Len(transformed_posts) = 3

(* C2 as stated: a raw comment lacking a required field always fails with  *)
(* a KeyError (MissingField) naming an absent field, whatever else it holds*)
C2_Original ==
    \A i \in DOMAIN calls :
        (Required \ DOMAIN calls[i].raw # {})
            => /\ ~calls[i].result.ok
               /\ calls[i].result.error.type = "KeyError"
               /\ calls[i].result.error.key \notin DOMAIN calls[i].raw

(* C2 amended: a raw comment lacking a required field always fails; the    *)
(* error is a KeyError naming an absent required field, unless time is     *)
(* present and unparsable, in which case it is the ValueError of time.     *)
C2_MissingField ==
    \A i \in DOMAIN calls :
        LET raw == calls[i].raw
            result == calls[i].result
        IN  (Required \ DOMAIN raw # {})
                => /\ ~result.ok
                   /\ IF "time" \in DOMAIN raw
                         /\ ~int(split(raw["time"], "h")[1]).ok
                      THEN result.error.type = "ValueError"
                      ELSE /\ result.error.type = "KeyError"
                           /\ result.error.key \in Required \ DOMAIN raw

\* upvotes is absent and the time is unparsable: the ValueError wins
C2_Witness ==
    \E i \in DOMAIN calls :
        /\ "upvotes" \notin DOMAIN calls[i].raw
        /\ "time" \in DOMAIN calls[i].raw
        /\ ~calls[i].result.ok
        /\ calls[i].result.error.type = "ValueError"

(* C3: a time string that is not <integer>h... makes the call fail with    *)
(* the ValueError of int() (MalformedTimestamp).                           *)
C3_MalformedTimestamp ==
    \A i \in DOMAIN calls :
        ("time" \in DOMAIN calls[i].raw /\ ~HourShape(calls[i].raw["time"]))
            => /\ ~calls[i].result.ok
               /\ calls[i].result.error.type = "ValueError"

(* C4: a raw comment with the seven required fields and a well-formed time *)
(* normalizes whether or not it has a sentiment; the post's sentiment is   *)
(* the raw one, or null when there is none.                                *)
C4_SentimentOptional ==
    \A i \in DOMAIN calls :
        LET raw == calls[i].raw
            result == calls[i].result
        IN  (Required \subseteq DOMAIN raw /\ CountShape(raw["time"]))
                => /\ result.ok
                   /\ result.post.sentiment =
                          IF "sentiment" \in DOMAIN raw
                          THEN raw["sentiment"] ELSE None

(* C5: for time = <k>h<suffix> the timestamp of the returned post denotes  *)
(* the instant captured by the call minus exactly k hours, in UTC.         *)
C5_Timestamp ==
    \A i \in DOMAIN calls :
        LET raw == calls[i].raw
            result == calls[i].result
        IN  (result.ok /\ CountShape(raw["time"]))
                => /\ InstantOf(result.post.timestamp)
                          = calls[i].now - LeadingCount(raw["time"]) * TicksPerHour
                   /\ result.post.timestamp.offset = "+00:00"

\* a post two or more hours old, with a suffix after the unit, normalized
\* after the clock has moved
C5_Witness ==
    \E i \in DOMAIN calls :
        /\ calls[i].result.ok
        /\ CountShape(calls[i].raw["time"])
        /\ LeadingCount(calls[i].raw["time"]) >= 2
        /\ calls[i].raw["time"][Len(calls[i].raw["time"])] # "h"
        /\ calls[i].now > StartInstant

(* C6: stockMentions lists the upper-cased maximal letter runs that follow *)
(* a '$', one per occurrence, left to right, duplicates kept.              *)
C6_Mentions ==
    \A i \in DOMAIN calls :
        LET raw == calls[i].raw
            result == calls[i].result
        IN  (result.ok /\ CashtagStarts(raw["content"]) # {})
                => /\ ~result.post.stockMentions.isNone
                   /\ ListsCashtags(result.post.stockMentions.value,
                                    raw["content"])

\* the same ticker written in two cases is listed twice
C6_Witness ==
    \E i \in DOMAIN calls :
        /\ calls[i].result.ok
        /\ ~calls[i].result.post.stockMentions.isNone
        /\ LET m == calls[i].result.post.stockMentions.value
               found == findall(calls[i].raw["content"])
           IN  /\ Len(m) >= 2
               /\ m[1] = m[2]
               /\ found[1] # found[2]

(* C7: stockMentions is null or a non-empty sequence; content without a    *)
(* '$' followed by a letter gives null; a call on a comment that has a     *)
(* content fails only for its time or for another, absent key.             *)
C7_NullOrNonEmpty ==
    \A i \in DOMAIN calls :
        LET raw == calls[i].raw
            result == calls[i].result
        IN  /\ result.ok
                => /\ result.post.stockMentions.isNone
                       \/ Len(result.post.stockMentions.value) > 0
                   /\ CashtagStarts(raw["content"]) = {}
                          => result.post.stockMentions.isNone
            /\ (~result.ok /\ "content" \in DOMAIN raw)
                => \/ result.error.type = "ValueError"
                   \/ /\ result.error.type = "KeyError"
                      /\ result.error.key \notin DOMAIN raw

\* the content has a '$' but no cashtag, and the post has no mentions
C7_Witness ==
    \E i \in DOMAIN calls :
        /\ calls[i].result.ok
        /\ \E p \in DOMAIN calls[i].raw["content"] :
               calls[i].raw["content"][p] = "$"
        /\ CashtagStarts(calls[i].raw["content"]) = {}
        /\ calls[i].result.post.stockMentions.isNone

(* C8: when every fetched comment normalizes, the answer is the list of    *)
(* their posts, the i-th post being that of the i-th comment.              *)
C8_OrderPreserving ==
    (Responded /\ fetcher.ok /\ ~SomeRecordFails)
        => /\ response.status = 200
           /\ Len(response.body) = Len(fetcher.comments)
           /\ \A i \in DOMAIN fetcher.comments :
                  response.body[i] =
                      transform_reddit_comment(fetcher.comments[i],
                                               calls[i].now).post

\* four posts returned, the first two of different comments
C8_Witness ==
    /\ Responded
    /\ response.status = 200
    /\ Len(response.body) = 4
    /\ response.body[1].id # response.body[2].id

(* C9 as stated: every returned post has likes >= 0 and replies >= 0.      *)
C9_Original ==
    \A i \in DOMAIN calls :
        calls[i].result.ok
            => /\ calls[i].result.post.likes >= 0
               /\ calls[i].result.post.replies >= 0

(* C9 amended: a returned post has likes >= 0 exactly when the raw upvotes *)
(* are >= 0, and replies >= 0 exactly when the raw replies are >= 0.       *)
C9_NonNegative ==
    \A i \in DOMAIN calls :
        calls[i].result.ok
            => /\ calls[i].result.post.likes >= 0
                      <=> calls[i].raw["upvotes"] >= 0
               /\ calls[i].result.post.replies >= 0
                      <=> calls[i].raw["replies"] >= 0

\* a comment with negative upvotes and replies was normalized
C9_Witness ==
    \E i \in DOMAIN calls :
        /\ calls[i].result.ok
        /\ calls[i].raw["upvotes"] < 0
        /\ calls[i].raw["replies"] < 0
        /\ calls[i].result.post.likes < 0

(* C10: id, author, content, replies, source and sentiment of a returned   *)
(* post are those of the raw comment, and likes is its upvotes.            *)
C10_CopiedFields ==
    \A i \in DOMAIN calls :
        LET raw == calls[i].raw
            post == calls[i].result.post
        IN  calls[i].result.ok
                => /\ post.id = raw["id"]
                   /\ post.author = raw["author"]
                   /\ post.content = raw["content"]
                   /\ post.likes = raw["upvotes"]
                   /\ post.replies = raw["replies"]
                   /\ post.source = raw["source"]
                   /\ post.sentiment = raw["sentiment"]

\* a comment nobody voted on
C10_Witness ==
    \E i \in DOMAIN calls :
        /\ calls[i].result.ok
        /\ calls[i].raw["upvotes"] = 0
        /\ calls[i].result.post.likes = 0
        /\ calls[i].raw["replies"] # 0

====
